---- MODULE Spec2Model ----
(***************************************************************************)
(* Model of the OCI manifest generators of foundry-oci-format:             *)
(*   - store-solidity-abis.js (src/gen.js): approaches A, B, C, D;         *)
(*   - oci-submodules-approach-c.js (src/README.md, lines 180-375): one    *)
(*     layer per git submodule.                                            *)
(* Both scripts are synchronous node programs.  A run is modelled as a     *)
(* sequence of steps of main(); the file system outlives a run, so that    *)
(* a later run finds what an earlier one left behind.                      *)
(*                                                                         *)
(* Bytes are numbers, a file is a sequence of bytes, Option values are     *)
(* sequences of length at most one (<<>> is "no such file"/undefined).     *)
(* sha256 is modelled as an ideal (collision free) hash: its hex digest    *)
(* is the hex expansion of the bytes hashed.                               *)
(***************************************************************************)
EXTENDS Integers, Sequences, FiniteSets, TLC

VARIABLES
    script,      \* which program this behaviour runs: "gen" or "sub"
    contracts,   \* Option(directory listing of ./contracts): Seq of [name, data]
    gitmodules,  \* Option(lines of ./.gitmodules)
    commits,     \* output of `git submodule status`: set of paths with a pinned commit
    clock,       \* time stamp the archiver embeds in an archive it creates
    outputDir,   \* does ./output (gen) or ./submodule-layers (sub) exist
    fs,          \* regular files the scripts write: path -> Option(content)
    runs,        \* number of runs started so far
    pc,          \* position of the running process inside main()
    approach,    \* process.argv[2]
    abiFiles,    \* main's abiFiles
    manifest,    \* Option(manifest object built so far)
    submodules,  \* sub: result of parseGitmodules, in Object.keys order
    layers,      \* sub: main's layers array
    exitCode     \* -1 while running / never run, else the process exit status

vars == <<script, contracts, gitmodules, commits, clock, outputDir, fs, runs,
          pc, approach, abiFiles, manifest, submodules, layers, exitCode>>

----------------------------------------------------------------------------
(* Bounds of the model *)

MaxFiles == 2
MaxRuns == 2
MaxLines == 3

----------------------------------------------------------------------------
(* Small input universes *)

\* file names are sequences of segments; the last segment is the extension
FileNames == { <<"A", ".abi">>, <<"B", ".abi">>, <<"notes", ".txt">> }

\* first byte of each name, used where a name is written into an archive
NameByte(name) ==
    IF name[1] = "A" THEN 65 ELSE IF name[1] = "B" THEN 66 ELSE 110

\* file contents: "", "[", "]", "[]"
Contents == { <<>>, <<91>>, <<93>>, <<91, 93>> }

Selectors == { "A", "B", "C", "D", "E", "undefined" }

RECURSIVE ListingsOfLen(_)
ListingsOfLen(n) ==
    IF n = 0 THEN { <<>> }
    ELSE { Append(l, [name |-> nm, data |-> d]) :
             l \in ListingsOfLen(n - 1), nm \in FileNames, d \in Contents }

Distinct(l) == \A i, j \in 1..Len(l) : l[i].name = l[j].name => i = j

\* a directory holds each name at most once; readdir order is the OS's
Listings ==
    { l \in UNION { ListingsOfLen(n) : n \in 0..MaxFiles } : Distinct(l) }

----------------------------------------------------------------------------
(* Configuration constants, gen.js 27-48 *)

ABI_DIR == "contracts"
OUTPUT_DIR == "output"
SINGLE_LAYER_TGZ == [dir |-> OUTPUT_DIR, base |-> <<"abis-single-layer", ".tgz">>]
SINGLE_CONFIG_TGZ == [dir |-> OUTPUT_DIR, base |-> <<"abis-config", ".tgz">>]
MANIFEST_JSON == [dir |-> OUTPUT_DIR, base |-> <<"manifest", ".json">>]

\* digest of the two bytes "{}" (0x7b 0x7d), written out, not computed
EMPTY_DESCRIPTOR ==
    [ mediaType |-> "application/vnd.oci.empty.v1+json",
      digest |-> [alg |-> "sha256", hex |-> <<7, 11, 7, 13>>],
      size |-> 2 ]

\* sha256:1111...
SUBJECT_DESCRIPTOR ==
    [ mediaType |-> "application/vnd.oci.image.manifest.v1+json",
      digest |-> [alg |-> "sha256", hex |-> <<1, 1, 1, 1>>],
      size |-> 9999 ]

\* annotation key for a human readable title
TITLE == "org.opencontainers.image.title"

GenPaths == { SINGLE_LAYER_TGZ, SINGLE_CONFIG_TGZ, MANIFEST_JSON }

----------------------------------------------------------------------------
(* Helper functions, gen.js 54-88 *)

basename(p) == p.base
dirname(p) == p.dir
pathJoin(d, f) == [dir |-> d, base |-> f]

endsWithAbi(f) == Len(f) > 0 /\ f[Len(f)] = ".abi"

RECURSIVE FilterMapAbi(_)
FilterMapAbi(entries) ==
    IF entries = <<>> THEN <<>>
    ELSE LET f == Head(entries).name
             rest == FilterMapAbi(Tail(entries))
         IN IF endsWithAbi(f) THEN <<pathJoin(ABI_DIR, f)>> \o rest ELSE rest

\* gen.js 66-69 (the directory exists)
listAbiFiles(dir) == FilterMapAbi(dir)

\* fs.readFileSync of a source file under ./contracts
ReadContract(dir, p) ==
    LET i == CHOOSE k \in 1..Len(dir) : dir[k].name = basename(p)
    IN dir[i].data

RECURSIVE TarMembers(_, _)
TarMembers(dir, fileList) ==
    IF fileList = <<>> THEN <<>>
    ELSE LET data == ReadContract(dir, Head(fileList))
         IN <<NameByte(basename(Head(fileList))), Len(data)>> \o data
              \o TarMembers(dir, Tail(fileList))

\* gen.js 72-79: tar -czf out -C parent "a" "b" ...; the bytes written are
\* the gzip magic, the time stamp of the archive's metadata, and one member
\* per file in argument order.  The time stamp is what tar and gzip add to
\* the payloads: README.md 50-51, 77-78 and 168-169 show three archives of
\* the same three files, each 5245 bytes long, with three different digests.
tarFiles(dir, fileList, now) ==
    <<31, 139, now>> \o TarMembers(dir, fileList)

RECURSIVE Hex(_)
Hex(data) ==
    IF data = <<>> THEN <<>>
    ELSE <<Head(data) \div 16, Head(data) % 16>> \o Hex(Tail(data))

\* crypto.createHash("sha256").update(data).digest("hex")
sha256hex(data) == Hex(data)

\* as computeDigestAndSize, but with the length of the hex string as size
computeDigestAndSize_HexLength(data) ==
    [ digest |-> [alg |-> "sha256", hex |-> sha256hex(data)],
      size |-> Len(sha256hex(data)) ]

\* gen.js 81-88 / README 278-287, applied to the bytes read from filePath
computeDigestAndSize(data) ==
    [ digest |-> [alg |-> "sha256", hex |-> sha256hex(data)],
      size |-> Len(data) ]

----------------------------------------------------------------------------
(* Manifests, gen.js 99-203 *)

\* as approachA, but describing the archive before tar has written it
approachA_EmptyArchive(ds) ==
    [ schemaVersion |-> 2,
      mediaType |-> "application/vnd.oci.image.manifest.v1+json",
      artifactType |-> "application/vnd.solidity.abi",
      config |-> EMPTY_DESCRIPTOR,
      layers |-> << [ mediaType |-> "application/vnd.solidity.abi.layer.v1+tar+gzip",
                      digest |-> [alg |-> "sha256", hex |-> sha256hex(<<>>)],
                      size |-> 0 ] >> ]

\* gen.js 109-121
approachA(ds) ==
    [ schemaVersion |-> 2,
      mediaType |-> "application/vnd.oci.image.manifest.v1+json",
      artifactType |-> "application/vnd.solidity.abi",
      config |-> EMPTY_DESCRIPTOR,
      layers |-> << [ mediaType |-> "application/vnd.solidity.abi.layer.v1+tar+gzip",
                      digest |-> ds.digest,
                      size |-> ds.size ] >> ]

\* as approachB, but with the minimal config of approaches A and C
approachB_EmptyConfig(ds) ==
    [ schemaVersion |-> 2,
      mediaType |-> "application/vnd.oci.image.manifest.v1+json",
      artifactType |-> "application/vnd.solidity.abi",
      config |-> EMPTY_DESCRIPTOR,
      layers |-> <<>> ]

\* gen.js 139-149
approachB(ds) ==
    [ schemaVersion |-> 2,
      mediaType |-> "application/vnd.oci.image.manifest.v1+json",
      artifactType |-> "application/vnd.solidity.abi",
      config |-> [ mediaType |-> "application/vnd.solidity.abi.config.v1+tar+gzip",
                   digest |-> ds.digest,
                   size |-> ds.size ],
      layers |-> <<>> ]

\* as approachC_layers, but with unshift in place of push
RECURSIVE approachC_layers_Unshift(_, _)
approachC_layers_Unshift(dir, files) ==
    IF files = <<>> THEN <<>>
    ELSE LET ds == computeDigestAndSize(ReadContract(dir, Head(files)))
         IN approachC_layers_Unshift(dir, Tail(files))
              \o << [ mediaType |-> "application/vnd.solidity.abi.file",
                      digest |-> ds.digest,
                      size |-> ds.size,
                      annotations |->
                        (TITLE :> basename(Head(files))) ] >>

\* gen.js 164-175: forEach pushes one layer per file, in order
RECURSIVE approachC_layers(_, _)
approachC_layers(dir, files) ==
    IF files = <<>> THEN <<>>
    ELSE LET ds == computeDigestAndSize(ReadContract(dir, Head(files)))
         IN << [ mediaType |-> "application/vnd.solidity.abi.file",
                 digest |-> ds.digest,
                 size |-> ds.size,
                 annotations |->
                   (TITLE :> basename(Head(files))) ] >>
              \o approachC_layers(dir, Tail(files))

\* as approachC, but with a config descriptor computed from the first file
approachC_ComputedConfig(dir, files) ==
    [ schemaVersion |-> 2,
      mediaType |-> "application/vnd.oci.image.manifest.v1+json",
      artifactType |-> "application/vnd.solidity.abi",
      config |-> [ mediaType |-> "application/vnd.oci.empty.v1+json",
                   digest |-> computeDigestAndSize(ReadContract(dir, Head(files))).digest,
                   size |-> computeDigestAndSize(ReadContract(dir, Head(files))).size ],
      layers |-> approachC_layers(dir, files) ]

\* gen.js 178-185
approachC(dir, files) ==
    [ schemaVersion |-> 2,
      mediaType |-> "application/vnd.oci.image.manifest.v1+json",
      artifactType |-> "application/vnd.solidity.abi",
      config |-> EMPTY_DESCRIPTOR,
      layers |-> approachC_layers(dir, files) ]

\* as approachD, but returning the base manifest as it is
approachD_NoSubject(baseManifest) == baseManifest

\* gen.js 201: baseManifest.subject = SUBJECT_DESCRIPTOR
approachD(baseManifest) ==
    [ schemaVersion |-> baseManifest.schemaVersion,
      mediaType |-> baseManifest.mediaType,
      artifactType |-> baseManifest.artifactType,
      config |-> baseManifest.config,
      layers |-> baseManifest.layers,
      subject |-> SUBJECT_DESCRIPTOR ]

----------------------------------------------------------------------------
(* oci-submodules-approach-c.js, README.md 180-375 *)

SUBMODULE_LAYER_DIR == "submodule-layers"
ROOT_MANIFEST == [dir |-> ".", base |-> <<"manifest", ".json">>]

\* submodule names are sequences of characters
SubNames == { <<"a", "/", "b">>, <<"a", "_", "b">> }

\* values of path, url and branch lines, as sequences of characters
P1 == <<"l", "/", "1">>
P2 == <<"l", "/", "2">>
URL1 == <<"u">>
BRANCH1 == <<"m">>

\* A trimmed line of .gitmodules: `head` is the prefix startsWith() sees,
\* `arg` the capture of the regular expression applied to the line, <<>> when
\* the expression does not match (no quoted name, no "= value").
GitLines ==
    { [head |-> "[submodule", arg |-> <<n>>] : n \in SubNames }
    \cup { [head |-> "[submodule", arg |-> <<>>] }
    \cup { [head |-> "path", arg |-> <<v>>] : v \in { P1, P2 } }
    \cup { [head |-> "url", arg |-> <<URL1>>],
           [head |-> "branch", arg |-> <<BRANCH1>>],
           [head |-> "#", arg |-> <<>>] }

RECURSIVE LinesOfLen(_)
LinesOfLen(n) ==
    IF n = 0 THEN { <<>> }
    ELSE { Append(l, x) : l \in LinesOfLen(n - 1), x \in GitLines }

GitFiles == UNION { LinesOfLen(n) : n \in 0..MaxLines }

\* position of the key `name` in the object, 0 when absent
KeyIndex(subs, name) ==
    IF \E k \in 1..Len(subs) : subs[k].name = name
    THEN CHOOSE k \in 1..Len(subs) : subs[k].name = name
    ELSE 0

\* README 230: submodules[currentSubmodule] = { name: currentSubmodule };
\* an existing key keeps its position, a new key is appended
PutSubmodule(subs, name) ==
    LET fresh == [name |-> name, path |-> <<>>, url |-> <<>>, branch |-> <<>>]
        k == KeyIndex(subs, name)
    IN IF k = 0 THEN Append(subs, fresh) ELSE [subs EXCEPT ![k] = fresh]

\* README 224-248: one iteration of the loop over the lines;
\* st = [cur |-> Option(currentSubmodule), subs |-> submodules]
ParseLine(st, line) ==
    IF line.head = "[submodule"
    THEN IF line.arg # <<>>
         THEN [cur |-> line.arg, subs |-> PutSubmodule(st.subs, line.arg[1])]
         ELSE st
    ELSE IF st.cur # <<>> /\ st.cur[1] # <<>> /\ line.arg # <<>>
              /\ line.head \in { "path", "url", "branch" }
         THEN LET k == KeyIndex(st.subs, st.cur[1])
              IN [cur |-> st.cur,
                  subs |-> IF line.head = "path"
                           THEN [st.subs EXCEPT ![k].path = line.arg]
                           ELSE IF line.head = "url"
                           THEN [st.subs EXCEPT ![k].url = line.arg]
                           ELSE [st.subs EXCEPT ![k].branch = line.arg]]
         ELSE st

RECURSIVE ParseLines(_, _)
ParseLines(st, lines) ==
    IF lines = <<>> THEN st
    ELSE ParseLines(ParseLine(st, Head(lines)), Tail(lines))

\* README 214-250; gm is Option(lines)
parseGitmodules(gm) ==
    IF gm = <<>> THEN <<>>
    ELSE ParseLines([cur |-> <<>>, subs |-> <<>>], gm[1]).subs

\* subName.replace(/\//g, "_")
RECURSIVE replaceSlash(_)
replaceSlash(name) ==
    IF name = <<>> THEN <<>>
    ELSE <<IF Head(name) = "/" THEN "_" ELSE Head(name)>> \o replaceSlash(Tail(name))

\* README 321-322
layerFilePath(subName) ==
    [dir |-> SUBMODULE_LAYER_DIR, base |-> replaceSlash(subName) \o <<".json">>]

SubPaths == { layerFilePath(n) : n \in SubNames } \cup { ROOT_MANIFEST }

\* bytes of the characters the model uses
CharByte(c) ==
    IF c = "a" THEN 97 ELSE IF c = "b" THEN 98 ELSE IF c = "/" THEN 47
    ELSE IF c = "_" THEN 95 ELSE IF c = "l" THEN 108 ELSE IF c = "1" THEN 49
    ELSE IF c = "2" THEN 50 ELSE IF c = "u" THEN 117 ELSE 109

RECURSIVE StrBytes(_)
StrBytes(str) ==
    IF str = <<>> THEN <<>> ELSE <<CharByte(Head(str))>> \o StrBytes(Tail(str))

\* one property of the JSON text: key, value, separator; a property whose
\* value is undefined is left out by JSON.stringify
JsonProp(key, optBytes) ==
    IF optBytes = <<>> THEN <<>> ELSE <<key, 58>> \o optBytes[1] \o <<44>>

\* README 309-318 and JSON.stringify(submoduleData, null, 2) of line 323
submoduleData(info, pinned) ==
    LET commitSha == IF info.path # <<>> /\ info.path[1] \in pinned
                     THEN <<192, 255, 238>>      \* the pinned sha
                     ELSE <<85, 78, 75>>         \* "UNKNOWN"
        branch == IF info.branch # <<>> THEN info.branch[1] ELSE <<>>
    IN <<123>>
       \o JsonProp(110, <<StrBytes(info.name)>>)
       \o JsonProp(112, IF info.path = <<>> THEN <<>> ELSE <<StrBytes(info.path[1])>>)
       \o JsonProp(117, IF info.url = <<>> THEN <<>> ELSE <<StrBytes(info.url[1])>>)
       \o JsonProp(99, <<commitSha>>)
       \o JsonProp(98, <<StrBytes(branch)>>)
       \o <<125>>

\* README 329-337
submoduleLayer(subName, ds) ==
    [ mediaType |-> "application/vnd.example.git-submodule.layer.v1+json",
      digest |-> ds.digest,
      size |-> ds.size,
      annotations |-> (TITLE :> subName) ]

\* as submoduleManifest, but without the document's media type
submoduleManifest_NoMediaType(ls) ==
    [ schemaVersion |-> 2,
      artifactType |-> "application/vnd.example.git-submodules",
      config |-> EMPTY_DESCRIPTOR,
      layers |-> ls ]

\* README 342-349
submoduleManifest(ls) ==
    [ schemaVersion |-> 2,
      mediaType |-> "application/vnd.oci.image.manifest.v1+json",
      artifactType |-> "application/vnd.example.git-submodules",
      config |-> EMPTY_DESCRIPTOR,
      layers |-> ls ]

Paths == GenPaths \cup SubPaths

----------------------------------------------------------------------------
(* Initial states: nothing has run yet *)

Init ==
    /\ script \in { "gen", "sub" }
    /\ IF script = "gen"
       THEN /\ contracts \in { <<>> } \cup { <<l>> : l \in Listings }
            /\ gitmodules = <<>>
            /\ commits = {}
       ELSE /\ contracts = <<>>
            /\ gitmodules \in { <<>> } \cup { <<g>> : g \in GitFiles }
            /\ commits \in { {}, { P1 } }
    /\ clock = 0
    /\ outputDir = FALSE
    /\ fs = [p \in Paths |-> <<>>]
    /\ runs = 0
    /\ pc = "idle"
    /\ approach = "undefined"
    /\ abiFiles = <<>>
    /\ manifest = <<>>
    /\ submodules = <<>>
    /\ layers = <<>>
    /\ exitCode = -1

inputs == <<script, contracts, gitmodules, commits>>

\* process.exit(1)
Exit1 == pc' = "idle" /\ exitCode' = 1

----------------------------------------------------------------------------
(* store-solidity-abis.js *)

\* `node store-solidity-abis.js <selector>`: a fresh process; time may have
\* passed since the previous run
Invoke ==
    /\ script = "gen" /\ pc = "idle" /\ runs < MaxRuns
    /\ \E sel \in Selectors : approach' = sel
    /\ clock' \in { clock, clock + 1 }
    /\ runs' = runs + 1
    /\ pc' = "main"
    /\ abiFiles' = <<>> /\ manifest' = <<>> /\ exitCode' = -1
    /\ UNCHANGED <<inputs, outputDir, fs, submodules, layers>>

\* as Main_CheckSelector, but without the process.exit(1)
Main_CheckSelector_NoExit ==
    /\ pc = "main"
    /\ pc' = "ensure"
    /\ UNCHANGED <<inputs, clock, outputDir, fs, runs, approach, abiFiles,
                   manifest, submodules, layers, exitCode>>

\* gen.js 210-214
Main_CheckSelector ==
    /\ pc = "main"
    /\ IF approach \notin { "A", "B", "C", "D" }
       THEN Exit1
       ELSE pc' = "ensure" /\ UNCHANGED exitCode
    /\ UNCHANGED <<inputs, clock, outputDir, fs, runs, approach, abiFiles,
                   manifest, submodules, layers>>

\* gen.js 54-58, called at 216
ensureOutputDir ==
    /\ pc = "ensure"
    /\ outputDir' = TRUE
    /\ pc' = "list"
    /\ UNCHANGED <<inputs, clock, fs, runs, approach, abiFiles, manifest,
                   submodules, layers, exitCode>>

\* gen.js 217-222, with the exit of listAbiFiles (62-65)
Main_ListAbiFiles ==
    /\ pc = "list"
    /\ IF contracts = <<>>
       THEN Exit1 /\ UNCHANGED abiFiles
       ELSE /\ abiFiles' = listAbiFiles(contracts[1])
            /\ IF Len(abiFiles') = 0
               THEN Exit1
               ELSE pc' = "switch" /\ UNCHANGED exitCode
    /\ UNCHANGED <<inputs, clock, outputDir, fs, runs, approach, manifest,
                   submodules, layers>>

\* gen.js 225-238; approachD starts by calling approachA (198)
Main_Switch ==
    /\ pc = "switch"
    /\ pc' = IF approach \in { "A", "D" } THEN "A_unlink"
             ELSE IF approach = "B" THEN "B_unlink" ELSE "C"
    /\ UNCHANGED <<inputs, clock, outputDir, fs, runs, approach, abiFiles,
                   manifest, submodules, layers, exitCode>>

\* as ApproachA_Unlink, but leaving the archive of the earlier run in place
ApproachA_Unlink_Skip ==
    /\ pc = "A_unlink"
    /\ pc' = "A_tar"
    /\ UNCHANGED <<inputs, clock, outputDir, fs, runs, approach, abiFiles,
                   manifest, submodules, layers, exitCode>>

\* gen.js 103
ApproachA_Unlink ==
    /\ pc = "A_unlink"
    /\ fs' = [fs EXCEPT ![SINGLE_LAYER_TGZ] = <<>>]
    /\ pc' = "A_tar"
    /\ UNCHANGED <<inputs, clock, outputDir, runs, approach, abiFiles,
                   manifest, submodules, layers, exitCode>>

\* gen.js 104
ApproachA_Tar ==
    /\ pc = "A_tar"
    /\ fs' = [fs EXCEPT ![SINGLE_LAYER_TGZ] =
                <<tarFiles(contracts[1], abiFiles, clock)>>]
    /\ pc' = "A_digest"
    /\ UNCHANGED <<inputs, clock, outputDir, runs, approach, abiFiles,
                   manifest, submodules, layers, exitCode>>

\* gen.js 106-122
ApproachA_Return ==
    /\ pc = "A_digest"
    /\ manifest' = <<approachA(computeDigestAndSize(fs[SINGLE_LAYER_TGZ][1]))>>
    /\ pc' = IF approach = "D" THEN "D_subject" ELSE "write"
    /\ UNCHANGED <<inputs, clock, outputDir, fs, runs, approach, abiFiles,
                   submodules, layers, exitCode>>

\* gen.js 134
ApproachB_Unlink ==
    /\ pc = "B_unlink"
    /\ fs' = [fs EXCEPT ![SINGLE_CONFIG_TGZ] = <<>>]
    /\ pc' = "B_tar"
    /\ UNCHANGED <<inputs, clock, outputDir, runs, approach, abiFiles,
                   manifest, submodules, layers, exitCode>>

\* gen.js 135
ApproachB_Tar ==
    /\ pc = "B_tar"
    /\ fs' = [fs EXCEPT ![SINGLE_CONFIG_TGZ] =
                <<tarFiles(contracts[1], abiFiles, clock)>>]
    /\ pc' = "B_digest"
    /\ UNCHANGED <<inputs, clock, outputDir, runs, approach, abiFiles,
                   manifest, submodules, layers, exitCode>>

\* gen.js 136-150
ApproachB_Return ==
    /\ pc = "B_digest"
    /\ manifest' = <<approachB(computeDigestAndSize(fs[SINGLE_CONFIG_TGZ][1]))>>
    /\ pc' = "write"
    /\ UNCHANGED <<inputs, clock, outputDir, fs, runs, approach, abiFiles,
                   submodules, layers, exitCode>>

\* gen.js 157-186
ApproachC_Return ==
    /\ pc = "C"
    /\ manifest' = <<approachC(contracts[1], abiFiles)>>
    /\ pc' = "write"
    /\ UNCHANGED <<inputs, clock, outputDir, fs, runs, approach, abiFiles,
                   submodules, layers, exitCode>>

\* gen.js 200-202
ApproachD_Return ==
    /\ pc = "D_subject"
    /\ manifest' = <<approachD(manifest[1])>>
    /\ pc' = "write"
    /\ UNCHANGED <<inputs, clock, outputDir, fs, runs, approach, abiFiles,
                   submodules, layers, exitCode>>

\* gen.js 241-245, then the process ends normally
Main_WriteManifest ==
    /\ pc = "write"
    /\ fs' = [fs EXCEPT ![MANIFEST_JSON] = manifest]
    /\ pc' = "idle"
    /\ exitCode' = 0
    /\ UNCHANGED <<inputs, clock, outputDir, runs, approach, abiFiles,
                   manifest, submodules, layers>>

----------------------------------------------------------------------------
(* oci-submodules-approach-c.js *)

\* `./oci-submodules-approach-c.js`: a fresh process
SubInvoke ==
    /\ script = "sub" /\ pc = "idle" /\ runs < MaxRuns
    /\ runs' = runs + 1
    /\ pc' = "sub_parse"
    /\ manifest' = <<>> /\ submodules' = <<>> /\ layers' = <<>>
    /\ exitCode' = -1
    /\ UNCHANGED <<inputs, clock, outputDir, fs, approach, abiFiles>>

\* README 291-296
Sub_Parse ==
    /\ pc = "sub_parse"
    /\ submodules' = parseGitmodules(gitmodules)
    /\ pc' = "sub_mkdir"
    /\ UNCHANGED <<inputs, clock, outputDir, fs, runs, approach, abiFiles,
                   manifest, layers, exitCode>>

\* README 299-304
Sub_Mkdir ==
    /\ pc = "sub_mkdir"
    /\ outputDir' = TRUE
    /\ layers' = <<>>
    /\ pc' = "sub_loop"
    /\ UNCHANGED <<inputs, clock, fs, runs, approach, abiFiles, manifest,
                   submodules, exitCode>>

\* README 307-338: one iteration of the forEach over Object.keys(submodules)
Sub_Layer ==
    /\ pc = "sub_loop"
    /\ Len(layers) < Len(submodules)
    /\ LET info == submodules[Len(layers) + 1]
           subName == info.name
           file == layerFilePath(subName)
       IN /\ fs' = [fs EXCEPT ![file] = <<submoduleData(info, commits)>>]
          /\ layers' = Append(layers,
                 submoduleLayer(subName, computeDigestAndSize(fs'[file][1])))
    /\ UNCHANGED <<inputs, clock, outputDir, runs, pc, approach, abiFiles,
                   manifest, submodules, exitCode>>

\* README 342-373, then the process ends normally
Sub_WriteManifest ==
    /\ pc = "sub_loop"
    /\ Len(layers) = Len(submodules)
    /\ manifest' = <<submoduleManifest(layers)>>
    /\ fs' = [fs EXCEPT ![ROOT_MANIFEST] = manifest']
    /\ pc' = "idle"
    /\ exitCode' = 0
    /\ UNCHANGED <<inputs, clock, outputDir, runs, approach, abiFiles,
                   submodules, layers>>

----------------------------------------------------------------------------

Next ==
    \/ Invoke
    \/ Main_CheckSelector
    \/ ensureOutputDir
    \/ Main_ListAbiFiles
    \/ Main_Switch
    \/ ApproachA_Unlink
    \/ ApproachA_Tar
    \/ ApproachA_Return
    \/ ApproachB_Unlink
    \/ ApproachB_Tar
    \/ ApproachB_Return
    \/ ApproachC_Return
    \/ ApproachD_Return
    \/ Main_WriteManifest
    \/ SubInvoke
    \/ Sub_Parse
    \/ Sub_Mkdir
    \/ Sub_Layer
    \/ Sub_WriteManifest

Spec == Init /\ [][Next]_vars

----------------------------------------------------------------------------
(* Vocabulary of the properties *)

ValidSelectors == { "A", "B", "C", "D" }

\* the qualifying payloads of this behaviour, in directory order
Payloads ==
    IF contracts = <<>> THEN <<>>
    ELSE SelectSeq(contracts[1], LAMBDA e : e.name[Len(e.name)] = ".abi")

\* the document has the layout approach A emits
IsManifestA(m) ==
    /\ "subject" \notin DOMAIN m
    /\ Len(m.layers) = 1
    /\ m.layers[1].mediaType = "application/vnd.solidity.abi.layer.v1+tar+gzip"

\* a run of store-solidity-abis.js has built its manifest and not yet
\* written it (main, between the switch and line 241)
Built(sel) == script = "gen" /\ approach = sel /\ pc = "write"

\* the manifest.json an earlier run of approach A left in ./output
EarlierA == fs[MANIFEST_JSON] # <<>> /\ IsManifestA(fs[MANIFEST_JSON][1])

DigestOf(data) == [alg |-> "sha256", hex |-> Hex(data)]

----------------------------------------------------------------------------
(* C1: the manifest approach D builds equals the manifest approach A builds *)
(* from the same payloads with the one field `subject` added: every other   *)
(* field, the layer's digest and size included, is identical.               *)
C1_DEqualsAPlusSubject ==
    (Built("D") /\ EarlierA) =>
        LET a == fs[MANIFEST_JSON][1]
            d == manifest[1]
        IN /\ DOMAIN d = DOMAIN a \cup { "subject" }
           /\ d.subject = SUBJECT_DESCRIPTOR
           /\ d.schemaVersion = a.schemaVersion
           /\ d.mediaType = a.mediaType
           /\ d.artifactType = a.artifactType
           /\ d.config = a.config
           /\ d.layers = a.layers

(* C2: approach C emits one layer per payload, in input order: layer i has *)
(* the size, the digest and the title of payload i.                        *)
C2_OrderPreserved ==
    Built("C") =>
        LET ls == manifest[1].layers
        IN /\ Len(ls) = Len(Payloads)
           /\ \A i \in 1..Len(Payloads) :
                /\ ls[i].size = Len(Payloads[i].data)
                /\ ls[i].digest = DigestOf(Payloads[i].data)
                /\ ls[i].annotations[TITLE] = Payloads[i].name

C2_Witness ==
    /\ Built("C")
    /\ Len(Payloads) = 2
    /\ Len(manifest[1].layers) = 2
    /\ manifest[1].layers[1].size # manifest[1].layers[2].size

(* C3: with an empty payload set every program fails and neither builds    *)
(* nor writes a manifest.                                                  *)
EmptyInput ==
    IF script = "gen"
    THEN contracts # <<>> /\ Payloads = <<>>
    ELSE parseGitmodules(gitmodules) = <<>>

C3_EmptyInputRejected ==
    EmptyInput =>
        /\ manifest = <<>>
        /\ fs[MANIFEST_JSON] = <<>>
        /\ fs[ROOT_MANIFEST] = <<>>
        /\ (pc = "idle" /\ runs > 0) => exitCode = 1

C5_SameBundleDescriptor ==
    (Built("B") /\ EarlierA) =>
        LET a == fs[MANIFEST_JSON][1]
            b == manifest[1]
        IN /\ b.config.digest = a.layers[1].digest
           /\ b.config.size = a.layers[1].size

(* C6: every manifest of approach A, C or D, and of the submodule script,  *)
(* has the fixed Empty Descriptor as config, in memory and on disk.        *)
EmptyDescriptorValue ==
    [ mediaType |-> "application/vnd.oci.empty.v1+json",
      digest |-> [alg |-> "sha256", hex |-> <<7, 11, 7, 13>>],
      size |-> 2 ]

C6_EmptyDescriptorStable ==
    /\ (manifest # <<>> /\ (script = "sub" \/ approach \in { "A", "C", "D" }))
          => manifest[1].config = EmptyDescriptorValue
    /\ \A p \in { MANIFEST_JSON, ROOT_MANIFEST } :
          (fs[p] # <<>> /\ fs[p][1].layers # <<>>)
             => fs[p][1].config = EmptyDescriptorValue
    /\ EMPTY_DESCRIPTOR = EmptyDescriptorValue

C6_Witness ==
    /\ Built("C")
    /\ fs[MANIFEST_JSON] # <<>>
    /\ "subject" \in DOMAIN fs[MANIFEST_JSON][1]
    /\ \E i \in 1..Len(Payloads) : Payloads[i].data # <<>>

(* C7: approach A emits exactly one layer, of the tar+gzip layer media     *)
(* type, whose digest and size are those of the archive of all payloads    *)
(* built in this run.                                                      *)
C7_SingleLayer ==
    Built("A") =>
        LET ls == manifest[1].layers
            archive == fs[SINGLE_LAYER_TGZ]
        IN /\ Len(ls) = 1
           /\ ls[1].mediaType = "application/vnd.solidity.abi.layer.v1+tar+gzip"
           /\ archive # <<>>
           /\ archive[1] = tarFiles(contracts[1], listAbiFiles(contracts[1]), clock)
           /\ ls[1].digest = DigestOf(archive[1])
           /\ ls[1].size = Len(archive[1])

C7_Witness ==
    Built("A") /\ Len(Payloads) = 2 /\ runs = 2

(* C8: approach B emits no layers and a config descriptor of the custom    *)
(* config media type with the digest and size of the archive of all        *)
(* payloads; never the Empty Descriptor.                                   *)
C8_ConfigEmbedded ==
    Built("B") =>
        LET m == manifest[1]
            archive == fs[SINGLE_CONFIG_TGZ]
        IN /\ m.layers = <<>>
           /\ m.config.mediaType = "application/vnd.solidity.abi.config.v1+tar+gzip"
           /\ archive # <<>>
           /\ archive[1] = tarFiles(contracts[1], listAbiFiles(contracts[1]), clock)
           /\ m.config.digest = DigestOf(archive[1])
           /\ m.config.size = Len(archive[1])
           /\ m.config # EmptyDescriptorValue

C8_Witness ==
    Built("B") /\ Len(Payloads) = 2

(* C9: computeDigestAndSize returns the byte length of the bytes it read   *)
(* and "sha256:" with the hash of exactly those bytes, the zero-length     *)
(* file included; equal bytes under different names get equal pairs.       *)
C9_AddresserExact ==
    /\ Built("C") =>
         LET ls == manifest[1].layers
         IN \A i \in 1..Len(ls) :
              /\ ls[i].size = Len(Payloads[i].data)
              /\ ls[i].digest.alg = "sha256"
              /\ ls[i].digest.hex = Hex(Payloads[i].data)
              /\ \A j \in 1..Len(ls) :
                   Payloads[i].data = Payloads[j].data =>
                     /\ ls[i].digest = ls[j].digest
                     /\ ls[i].size = ls[j].size
    /\ Built("A") =>
         /\ manifest[1].layers[1].size = Len(fs[SINGLE_LAYER_TGZ][1])
         /\ manifest[1].layers[1].digest = DigestOf(fs[SINGLE_LAYER_TGZ][1])
    /\ Built("B") =>
         /\ manifest[1].config.size = Len(fs[SINGLE_CONFIG_TGZ][1])
         /\ manifest[1].config.digest = DigestOf(fs[SINGLE_CONFIG_TGZ][1])
    /\ (script = "sub" /\ pc = "sub_loop" /\ layers # <<>>) =>
         LET l == layers[Len(layers)]
             f == fs[layerFilePath(l.annotations[TITLE])]
         IN /\ f # <<>>
            /\ l.size = Len(f[1])
            /\ l.digest = DigestOf(f[1])

C9_Witness ==
    /\ Built("C")
    /\ Len(Payloads) = 2
    /\ Payloads[1].data = <<>>
    /\ Payloads[2].data = <<>>
    /\ manifest[1].layers[1].size = 0
    /\ manifest[1].layers[1].digest = manifest[1].layers[2].digest

(* C10: a run with a selector other than A, B, C, D exits with status 1    *)
(* in its first step and changes no file or directory; manifest.json       *)
(* changes only in the step that writes the manifest a build returned,     *)
(* and that run ends with status 0.                                        *)
C10_Step ==
    /\ (script = "gen" /\ pc # "idle" /\ approach \notin ValidSelectors) =>
          /\ pc = "main"
          /\ pc' = "idle" /\ exitCode' = 1
          /\ fs' = fs /\ outputDir' = outputDir
          /\ manifest' = <<>>
    /\ (script = "gen" /\ fs'[MANIFEST_JSON] # fs[MANIFEST_JSON]) =>
          /\ pc = "write"
          /\ approach \in ValidSelectors
          /\ manifest # <<>>
          /\ fs'[MANIFEST_JSON] = manifest
          /\ exitCode' = 0

C10_InvalidSelector == [][C10_Step]_vars

C10_Witness ==
    /\ script = "gen" /\ pc = "idle" /\ runs = 2
    /\ approach \notin ValidSelectors
    /\ exitCode = 1
    /\ fs[MANIFEST_JSON] # <<>>

(* C11: every manifest a run emits, in memory when main writes it and on   *)
(* disk afterwards, has schemaVersion 2, the image manifest media type, an *)
(* artifactType, one config descriptor and a layers sequence; `subject`    *)
(* is present exactly in the manifests approach D builds.                  *)
IsDescriptor(d) ==
    /\ { "mediaType", "digest", "size" } \subseteq DOMAIN d
    /\ d.digest.alg = "sha256"
    /\ d.size >= 0

SchemaValid(m) ==
    /\ { "schemaVersion", "mediaType", "artifactType", "config", "layers" }
          \subseteq DOMAIN m
    /\ DOMAIN m \subseteq { "schemaVersion", "mediaType", "artifactType",
                            "config", "layers", "subject" }
    /\ m.schemaVersion = 2
    /\ m.mediaType = "application/vnd.oci.image.manifest.v1+json"
    /\ m.artifactType \in { "application/vnd.solidity.abi",
                            "application/vnd.example.git-submodules" }
    /\ IsDescriptor(m.config)
    /\ \A i \in 1..Len(m.layers) : IsDescriptor(m.layers[i])

\* main holds the manifest it is about to write, or has written
Emitting == manifest # <<>> /\ pc \in { "write", "idle" }

C11_SchemaInvariant ==
    /\ Emitting =>
         /\ SchemaValid(manifest[1])
         /\ ("subject" \in DOMAIN manifest[1])
               <=> (script = "gen" /\ approach = "D")
    /\ fs[MANIFEST_JSON] # <<>> => SchemaValid(fs[MANIFEST_JSON][1])
    /\ fs[ROOT_MANIFEST] # <<>> =>
         /\ SchemaValid(fs[ROOT_MANIFEST][1])
         /\ "subject" \notin DOMAIN fs[ROOT_MANIFEST][1]

C11_Witness ==
    /\ script = "sub" /\ pc = "idle" /\ exitCode = 0
    /\ fs[ROOT_MANIFEST] # <<>>
    /\ Len(fs[ROOT_MANIFEST][1].layers) = 2

(* C12: parseGitmodules attributes every path, url and branch line to the  *)
(* submodule named by the most recent [submodule "name"] header before it  *)
(* (lines before the first header are ignored, a later line of the same    *)
(* kind overwrites an earlier one), and returns exactly one record per     *)
(* distinct header name, carrying that name and the values attributed.     *)
GmLines == IF gitmodules = <<>> THEN <<>> ELSE gitmodules[1]

IsHeader(i) == GmLines[i].head = "[submodule" /\ GmLines[i].arg # <<>>

MaxOf(S) == CHOOSE x \in S : \A y \in S : y <= x

\* Option(name of the most recent header before line i)
OwnerOf(i) ==
    LET hs == { j \in 1..(i - 1) : IsHeader(j) }
    IN IF hs = {} THEN <<>> ELSE GmLines[MaxOf(hs)].arg

HeaderNames == { GmLines[j].arg[1] : j \in { i \in 1..Len(GmLines) : IsHeader(i) } }

\* Option(value of the last line of this kind attributed to submodule n)
AttributedValue(n, kind) ==
    LET idx == { i \in 1..Len(GmLines) :
                   /\ GmLines[i].head = kind
                   /\ GmLines[i].arg # <<>>
                   /\ OwnerOf(i) = <<n>> }
    IN IF idx = {} THEN <<>> ELSE GmLines[MaxOf(idx)].arg

AttributedRecord(n) ==
    [ name |-> n,
      path |-> AttributedValue(n, "path"),
      url |-> AttributedValue(n, "url"),
      branch |-> AttributedValue(n, "branch") ]

\* parseGitmodules has returned in the current run
Parsed == script = "sub" /\ runs > 0 /\ pc # "sub_parse"

C12_LinesAttributed ==
    Parsed =>
        /\ Len(submodules) = Cardinality(HeaderNames)
        /\ \A k \in 1..Len(submodules) : submodules[k].name \in HeaderNames
        /\ \A n \in HeaderNames :
             \E k \in 1..Len(submodules) : submodules[k] = AttributedRecord(n)

\* the same restricted to files in which no header name repeats: there the
\* parser does what C12 says, so the repeated header is the one divergence
C12_WithoutRepeatedHeader ==
    (\A i, j \in 1..Len(GmLines) :
        (IsHeader(i) /\ IsHeader(j) /\ GmLines[i].arg = GmLines[j].arg) => i = j)
    => C12_LinesAttributed

(* C13: in a run of approach A, B or D the archive of an earlier run is    *)
(* removed, then the archive is created, then described, and only then is  *)
(* manifest.json written; in the step that writes manifest.json every      *)
(* computed descriptor in it has the digest and size of a file on disk,    *)
(* and for A, B, D that file is the archive this run created.              *)
ArchivePath == IF approach = "B" THEN SINGLE_CONFIG_TGZ ELSE SINGLE_LAYER_TGZ

ThisRunsArchive == tarFiles(contracts[1], listAbiFiles(contracts[1]), clock)

Describes(d, data) == d.digest = DigestOf(data) /\ d.size = Len(data)

C13_Step ==
    /\ script = "gen" =>
         \* removal precedes creation
         /\ pc \in { "A_tar", "B_tar" } => fs[ArchivePath] = <<>>
         \* creation precedes description
         /\ pc \in { "A_digest", "B_digest" } =>
              fs[ArchivePath] = <<ThisRunsArchive>> /\ manifest = <<>>
         \* the manifest file is untouched until the build has returned
         /\ pc \notin { "write", "idle" } => fs'[MANIFEST_JSON] = fs[MANIFEST_JSON]
    /\ (script = "gen" /\ pc = "write" /\ pc' = "idle") =>
         LET m == fs'[MANIFEST_JSON][1]
         IN /\ fs'[MANIFEST_JSON] = manifest
            /\ approach \in { "A", "D" } =>
                 /\ fs'[SINGLE_LAYER_TGZ] = <<ThisRunsArchive>>
                 /\ Len(m.layers) = 1
                 /\ Describes(m.layers[1], fs'[SINGLE_LAYER_TGZ][1])
            /\ approach = "B" =>
                 /\ fs'[SINGLE_CONFIG_TGZ] = <<ThisRunsArchive>>
                 /\ Describes(m.config, fs'[SINGLE_CONFIG_TGZ][1])
            /\ approach = "C" =>
                 \A i \in 1..Len(m.layers) :
                    \E k \in 1..Len(contracts[1]) :
                       /\ contracts[1][k].name = m.layers[i].annotations[TITLE]
                       /\ Describes(m.layers[i], contracts[1][k].data)

C13_BlobsExistAtPublication == [][C13_Step]_vars

C13_Witness ==
    /\ script = "gen" /\ pc = "idle" /\ exitCode = 0 /\ runs = 2
    /\ approach = "D"
    /\ fs[MANIFEST_JSON] = manifest
    /\ fs[SINGLE_CONFIG_TGZ] # <<>>
    /\ fs[SINGLE_CONFIG_TGZ] # fs[SINGLE_LAYER_TGZ]
    /\ Describes(fs[MANIFEST_JSON][1].layers[1], fs[SINGLE_LAYER_TGZ][1])

(* C14: when the submodule script's main has finished, every layer of the  *)
(* manifest it wrote still describes its blob file: the file written for   *)
(* submodule i holds bytes with layer i's digest and size.                 *)
C14_LayersMatchFiles ==
    (script = "sub" /\ pc = "idle" /\ exitCode = 0) =>
        LET ls == fs[ROOT_MANIFEST][1].layers
        IN \A i \in 1..Len(ls) :
             LET f == fs[layerFilePath(ls[i].annotations[TITLE])]
             IN f # <<>> /\ Describes(ls[i], f[1])

====
